---- MODULE Spec2Model ----
(***************************************************************************)
(* Payslip service (Backend/server.js over the payslips table).            *)
(*                                                                         *)
(* Strings are sequences of one-character strings, so that the regular     *)
(* expressions, trim() and the column lengths are computed on characters.  *)
(* A JavaScript value is a record [t, s, n]: t is its type tag, s its      *)
(* characters when it is a string, n its value when it is a number.        *)
(***************************************************************************)
EXTENDS Integers, Sequences, FiniteSets, TLC

VARIABLES payslips, payslips_id_seq, now, running, pc, req, res, served,
          deletedIds, succeeded, args, returned

vars == <<payslips, payslips_id_seq, now, running, pc, req, res, served,
          deletedIds, succeeded, args, returned>>

\* the variables of the service, and those of a call of a helper function
service == <<payslips, payslips_id_seq, now, running, pc, req, res, served,
             deletedIds, succeeded>>
call == <<args, returned>>

(***************************************************************************)
(* Bounds of the model.                                                    *)
(***************************************************************************)
\* the requests served in one run, and the last reading of the clock
MaxRequests == 3
MaxTime == 1

\* two clients, so that two requests can be open at once
Clients == {1, 2}

(***************************************************************************)
(* Characters.                                                             *)
(***************************************************************************)
UpperCase == {"A","B","C","D","E","F","G","H","I","J","K","L","M",
              "N","O","P","Q","R","S","T","U","V","W","X","Y","Z"}
LowerCase == {"a","b","c","d","e","f","g","h","i","j","k","l","m",
              "n","o","p","q","r","s","t","u","v","w","x","y","z"}
Letters == UpperCase \cup LowerCase
Digits == {"0","1","2","3","4","5","6","7","8","9"}
WhiteSpace == {" ", "\t"}

AllIn(s, S) == \A i \in 1..Len(s) : s[i] \in S

RECURSIVE TrimStart(_)
TrimStart(s) ==
    IF s # <<>> /\ Head(s) \in WhiteSpace THEN TrimStart(Tail(s)) ELSE s

RECURSIVE TrimEnd(_)
TrimEnd(s) ==
    IF s # <<>> /\ s[Len(s)] \in WhiteSpace
    THEN TrimEnd(SubSeq(s, 1, Len(s) - 1))
    ELSE s

\* String.prototype.trim
Trim(s) == TrimEnd(TrimStart(s))

DigitValue(c) ==
    CASE c = "0" -> 0 [] c = "1" -> 1 [] c = "2" -> 2 [] c = "3" -> 3
      [] c = "4" -> 4 [] c = "5" -> 5 [] c = "6" -> 6 [] c = "7" -> 7
      [] c = "8" -> 8 [] c = "9" -> 9

RECURSIVE ParseDigits(_)
ParseDigits(s) ==
    IF s = <<>> THEN 0
    ELSE 10 * ParseDigits(SubSeq(s, 1, Len(s) - 1)) + DigitValue(s[Len(s)])

(***************************************************************************)
(* JavaScript values of a request body.                                    *)
(***************************************************************************)
Undefined == [t |-> "undefined", s |-> <<>>, n |-> 0]
Null == [t |-> "null", s |-> <<>>, n |-> 0]
Str(s) == [t |-> "string", s |-> s, n |-> 0]
Num(n) == [t |-> "number", s |-> <<>>, n |-> n]
\* the number Infinity, which JSON.parse yields for a literal such as 1e999
Infinity == [t |-> "infinity", s |-> <<>>, n |-> 0]

\* the number NaN
NaN == [t |-> "nan", s |-> <<>>, n |-> 0]

\* ToBoolean, as used by !x, x && ..., x || ...
Truthy(v) ==
    CASE v.t = "string" -> v.s # <<>>
      [] v.t = "number" -> v.n # 0
      [] v.t = "infinity" -> TRUE
      [] OTHER -> FALSE

\* x || null
OrNull(v) == IF Truthy(v) THEN v ELSE Null

\* a string ToNumber converts to a finite integer: optional sign and digits
\* around white space, or only white space (which converts to 0)
IsIntegerString(s) ==
    LET u == Trim(s)
        d == IF u # <<>> /\ u[1] \in {"-", "+"} THEN Tail(u) ELSE u
    IN  u = <<>> \/ (d # <<>> /\ AllIn(d, Digits))

StringToInteger(s) ==
    LET u == Trim(s)
    IN  IF u = <<>> THEN 0
        ELSE IF u[1] = "-" THEN 0 - ParseDigits(Tail(u))
        ELSE IF u[1] = "+" THEN ParseDigits(Tail(u))
        ELSE ParseDigits(u)

\* the global isNaN(x): ToNumber(x) is NaN
IsNaN(v) ==
    CASE v.t = "undefined" -> TRUE
      [] v.t = "nan" -> TRUE
      [] v.t = "string" -> ~IsIntegerString(v.s)
      [] OTHER -> FALSE

\* ToNumber(x) of a value that is neither NaN nor infinite
ToNumber(v) ==
    CASE v.t = "number" -> v.n
      [] v.t = "string" -> StringToInteger(v.s)
      [] OTHER -> 0

\* x < k and x > k for a number k: false when ToNumber(x) is NaN
JsLess(v, k) == ~IsNaN(v) /\ v.t # "infinity" /\ ToNumber(v) < k
JsGreater(v, k) == ~IsNaN(v) /\ (v.t = "infinity" \/ ToNumber(v) > k)

(***************************************************************************)
(* Field validators.                                                       *)
(***************************************************************************)
\* the pattern without its lookahead: /^ATS0\d{3}$/
MatchesEmployeeIdNoLookahead(s) ==
    /\ Len(s) = 7
    /\ SubSeq(s, 1, 4) = <<"A", "T", "S", "0">>
    /\ AllIn(SubSeq(s, 5, 7), Digits)

\* /^ATS0(?!000)\d{3}$/ on a sequence of characters
MatchesEmployeeId(s) ==
    /\ Len(s) = 7
    /\ SubSeq(s, 1, 4) = <<"A", "T", "S", "0">>
    /\ AllIn(SubSeq(s, 5, 7), Digits)
    /\ SubSeq(s, 5, 7) # <<"0", "0", "0">>

\* regex.test(id) converts a value that is no string to its text, and no such
\* text (digits, Infinity, null, undefined) matches
validateEmployeeId(id) == id.t = "string" /\ MatchesEmployeeId(id.s)

\* /^[A-Z]{5}\d{4}[A-Z]$/
MatchesPAN(s) ==
    /\ Len(s) = 10
    /\ AllIn(SubSeq(s, 1, 5), UpperCase)
    /\ AllIn(SubSeq(s, 6, 9), Digits)
    /\ s[10] \in UpperCase

validatePAN(pan) == pan.t = "string" /\ MatchesPAN(pan.s)

\* /^[A-Za-z]+(?:\s[A-Za-z]+)*$/ : runs of letters, one white-space character
\* between two runs
MatchesAlphabeticWithSpaces(s) ==
    /\ s # <<>>
    /\ AllIn(s, Letters \cup WhiteSpace)
    /\ s[1] \in Letters
    /\ s[Len(s)] \in Letters
    /\ \A i \in 1..(Len(s) - 1) : ~(s[i] \in WhiteSpace /\ s[i + 1] \in WhiteSpace)

\* (input.match(/[A-Za-z]/g) || []).length, counted on the input as given
AlphaCount(s) == Cardinality({i \in 1..Len(s) : s[i] \in Letters})

\* input.match and input.trim exist on strings only: any other value throws
ThrowsTypeError(input) == input.t # "string"

validateAlphabeticWithSpaces(input) ==
    LET trimmedInput == Trim(input.s)
    IN  /\ Len(trimmedInput) >= 5
        /\ Len(trimmedInput) <= 30
        /\ MatchesAlphabeticWithSpaces(trimmedInput)
        /\ AlphaCount(input.s) >= 5

\* /^\d{9,16}$/
MatchesBankAccount(s) == Len(s) >= 9 /\ Len(s) <= 16 /\ AllIn(s, Digits)

validateBankAccount(account) == MatchesBankAccount(Trim(account.s))

validateComponentName(name) == validateAlphabeticWithSpaces(name)

(***************************************************************************)
(* Request bodies of POST /api/payslips.  dateJoining, employeeType,        *)
(* duration, providentFund, uan and esic are absent from every body here:   *)
(* the handler passes each on as null, which satisfies its column.          *)
(***************************************************************************)
ATS0123 == <<"A", "T", "S", "0", "1", "2", "3">>
ATS0456 == <<"A", "T", "S", "0", "4", "5", "6">>
ATS0000 == <<"A", "T", "S", "0", "0", "0", "0">>
Jan2024 == <<"2", "0", "2", "4", "-", "0", "1">>
Feb2024 == <<"2", "0", "2", "4", "-", "0", "2">>
ShortMonth == <<"2", "0", "2", "4", "-", "1">>
Alice == <<"A", "l", "i", "c", "e">>
Bob == <<"B", "o", "b">>
BasicPay == <<"B", "a", "s", "i", "c", " ", "P", "a", "y">>
Taxes == <<"T", "a", "x", "e", "s">>
HRA == <<"H", "R", "A">>
GoodPAN == <<"A", "B", "C", "D", "E", "1", "2", "3", "4", "F">>
LowerPAN == <<"a", "b", "c", "d", "e", "1", "2", "3", "4", "f">>
GoodAccount == <<"1", "2", "3", "4", "5", "6", "7", "8", "9">>
ShortAccount == <<"1", "2", "3", "4", "5">>
PaddedAccount == <<" ">> \o GoodAccount
NotANumber == <<"a", "b", "c">>

Item(component, amount) == [component |-> component, amount |-> amount]
Array(items) == [t |-> "array", items |-> items]
NoArray == [t |-> "undefined", items |-> <<>>]

EmployeeIds == {ATS0123, ATS0456}
MonthYears == {Jan2024, Feb2024}

\* a body every rule accepts
Body(employeeId, monthYear) ==
    [employeeId |-> Str(employeeId), employeeName |-> Str(Alice),
     designation |-> Str(Alice), monthYear |-> Str(monthYear),
     location |-> Str(Alice), bankName |-> Str(Alice),
     accountNo |-> Str(GoodAccount), workingDays |-> Num(22), lop |-> Num(2),
     pan |-> Str(GoodPAN),
     earnings |-> Array(<<Item(Str(BasicPay), Num(1000))>>),
     deductions |-> Array(<<>>),
     grossPay |-> Num(1000), totalDeductions |-> Num(0), netPay |-> Num(1000)]

EarningsInputs ==
    {NoArray, Array(<<>>),
     Array(<<Item(Str(BasicPay), Null)>>),
     Array(<<Item(Str(BasicPay), Infinity)>>),
     Array(<<Item(Str(BasicPay), Num(-5))>>),
     Array(<<Item(Str(HRA), Num(1))>>),
     Array(<<Item(Num(7), Num(1))>>),
     Array(<<Item(Str(BasicPay), Num(1000)), Item(Str(HRA), Num(1))>>),
     Array(<<Item(Str(BasicPay), Null), Item(Str(HRA), Num(1))>>)}

DeductionsInputs ==
    {NoArray,
     Array(<<Item(Str(Taxes), Num(100))>>),
     Array(<<Item(Str(HRA), Num(1))>>),
     Array(<<Item(Str(Taxes), Str(NotANumber))>>)}

\* the bodies that differ from b in one field
Variants(b) ==
    {[b EXCEPT !.employeeId = v] : v \in {Undefined, Str(ATS0000)}}
    \cup {[b EXCEPT !.monthYear = v] : v \in {Undefined, Str(ShortMonth)}}
    \cup {[b EXCEPT !.employeeName = v] : v \in {Undefined, Str(Bob), Num(12345)}}
    \cup {[b EXCEPT !.designation = v] : v \in {Str(Bob)}}
    \cup {[b EXCEPT !.location = v] : v \in {Str(Bob)}}
    \cup {[b EXCEPT !.bankName = v] : v \in {Str(Bob)}}
    \cup {[b EXCEPT !.pan = v] : v \in {Undefined, Str(LowerPAN)}}
    \cup {[b EXCEPT !.accountNo = v] :
            v \in {Str(ShortAccount), Str(PaddedAccount), Num(123456789)}}
    \cup {[b EXCEPT !.workingDays = v] : v \in {Num(0), Num(32), Str(NotANumber)}}
    \cup {[b EXCEPT !.lop = v] : v \in {Num(0), Num(40)}}
    \cup {[b EXCEPT !.earnings = v] : v \in EarningsInputs}
    \cup {[b EXCEPT !.deductions = v] : v \in DeductionsInputs}
    \cup {[b EXCEPT !.netPay = v] : v \in {Undefined, Num(-1)}}

\* the request bodies of the validation workload: the accepted body of every
\* employee and period, its one-field variants for one employee and period,
\* and those variants with an empty earnings array
Bodies ==
    {Body(e, m) : e \in EmployeeIds, m \in MonthYears}
    \cup Variants(Body(ATS0123, Jan2024))
    \cup {[b EXCEPT !.earnings = Array(<<>>)] : b \in Variants(Body(ATS0123, Jan2024))}

\* the request bodies of the concurrent workload: accepted bodies of two
\* employees and two periods, and a body the table rejects
ConcurrentBodies ==
    {Body(ATS0123, Jan2024), Body(ATS0123, Feb2024), Body(ATS0456, Jan2024),
     [Body(ATS0123, Jan2024) EXCEPT !.monthYear = Str(ShortMonth)]}

(***************************************************************************)
(* Responses: res.status(..).json(..).                                     *)
(***************************************************************************)
Response(status, error, component, id, rows, list) ==
    [status |-> status, error |-> error, component |-> component, id |-> id,
     rows |-> rows, list |-> list]

NoResponse == Response(0, "", <<>>, 0, <<>>, <<>>)
BadRequest(error) == Response(400, error, <<>>, 0, <<>>, <<>>)
BadLineItem(error, component) == Response(400, error, component, 0, <<>>, <<>>)
NotFound(error) == Response(404, error, <<>>, 0, <<>>, <<>>)
\* the catch block of every handler: 'Internal server error: ' + error.message
InternalError(message) == Response(500, message, <<>>, 0, <<>>, <<>>)
Created(id) == Response(201, "Payslip created successfully", <<>>, id, <<>>, <<>>)

DuplicateMessage == "Payslip already exists for this Employee ID and Month/Year"
TypeErrorMessage == "Internal server error: TypeError"

(***************************************************************************)
(* POST /api/payslips: the checks before the first query.                  *)
(***************************************************************************)
\* the two for-loops over earnings and deductions: the response of the first
\* return or throw among items[i..], NoResponse when the loop runs to its end
RECURSIVE LineItemsResult(_, _, _)
LineItemsResult(items, i, kind) ==
    IF i > Len(items) THEN NoResponse
    ELSE IF ThrowsTypeError(items[i].component) THEN InternalError(TypeErrorMessage)
    ELSE IF ~validateComponentName(items[i].component)
         THEN BadLineItem("Invalid " \o kind \o " component name", items[i].component.s)
    ELSE IF IsNaN(items[i].amount) \/ JsLess(items[i].amount, 0)
         THEN BadLineItem("Invalid " \o kind \o " amount", items[i].component.s)
    ELSE LineItemsResult(items, i + 1, kind)

\* an optional name field: x && !validateAlphabeticWithSpaces(x)
NameResult(v, error) ==
    IF ~Truthy(v) THEN NoResponse
    ELSE IF ThrowsTypeError(v) THEN InternalError(TypeErrorMessage)
    ELSE IF ~validateAlphabeticWithSpaces(v) THEN BadRequest(error)
    ELSE NoResponse

\* the first response among rs that is one, NoResponse when none is
RECURSIVE FirstResponse(_)
FirstResponse(rs) ==
    IF rs = <<>> THEN NoResponse
    ELSE IF Head(rs) # NoResponse THEN Head(rs)
    ELSE FirstResponse(Tail(rs))

\* lines 86-148 in order: the response sent before any query, or NoResponse
ValidationResult(body) ==
    FirstResponse(<<
        IF ~Truthy(body.employeeId) \/ ~Truthy(body.monthYear)
        THEN BadRequest("Employee ID and Month/Year are required") ELSE NoResponse,
        IF ~validateEmployeeId(body.employeeId)
        THEN BadRequest("Invalid Employee ID format") ELSE NoResponse,
        NameResult(body.employeeName, "Invalid Employee Name"),
        NameResult(body.designation, "Invalid Designation"),
        NameResult(body.location, "Invalid Location"),
        NameResult(body.bankName, "Invalid Bank Name"),
        IF Truthy(body.pan) /\ ~validatePAN(body.pan)
        THEN BadRequest("Invalid PAN format") ELSE NoResponse,
        IF ~Truthy(body.accountNo) THEN NoResponse
        ELSE IF ThrowsTypeError(body.accountNo) THEN InternalError(TypeErrorMessage)
        ELSE IF ~validateBankAccount(body.accountNo)
             THEN BadRequest("Invalid Bank Account Number") ELSE NoResponse,
        IF Truthy(body.workingDays)
           /\ (IsNaN(body.workingDays) \/ JsLess(body.workingDays, 0)
               \/ JsGreater(body.workingDays, 31))
        THEN BadRequest("Working Days must be between 0 and 31") ELSE NoResponse,
        IF Truthy(body.lop)
           /\ (IsNaN(body.lop) \/ JsLess(body.lop, 0) \/ JsGreater(body.lop, 31))
        THEN BadRequest("LOP must be between 0 and 31") ELSE NoResponse,
        IF body.earnings.t = "undefined" \/ Len(body.earnings.items) = 0
        THEN BadRequest("At least one earning is required") ELSE NoResponse,
        LineItemsResult(body.earnings.items, 1, "earning"),
        \* for (const deduction of undefined) throws a TypeError
        IF body.deductions.t = "undefined" THEN InternalError(TypeErrorMessage)
        ELSE LineItemsResult(body.deductions.items, 1, "deduction")
    >>)

(***************************************************************************)
(* The payslips table and its constraints.                                 *)
(***************************************************************************)
\* JSON.stringify writes the number Infinity as null
JsonValue(v) == IF v.t = "infinity" THEN Null ELSE v

\* JSON.stringify(earnings), JSON.stringify(deductions)
JsonStringify(items) ==
    [i \in 1..Len(items) |->
        Item(JsonValue(items[i].component), JsonValue(items[i].amount))]

\* a parameter that is undefined is sent as null
PgParam(v) == IF v.t = "undefined" THEN Null ELSE v

\* a parameter of an INTEGER or DECIMAL column is sent as text and read back
\* as a number
PgNumber(v) ==
    IF v.t = "string" /\ Trim(v.s) # <<>> /\ IsIntegerString(v.s)
    THEN Num(StringToInteger(v.s))
    ELSE PgParam(v)

\* lop || 0
OrZero(v) == IF Truthy(v) THEN v ELSE Num(0)

\* the values array of the INSERT, as the columns receive it
Values(body, createdAt) ==
    [employee_id |-> PgParam(body.employeeId),
     employee_name |-> OrNull(body.employeeName),
     designation |-> OrNull(body.designation),
     month_year |-> PgParam(body.monthYear),
     location |-> OrNull(body.location),
     bank_name |-> OrNull(body.bankName),
     account_no |-> OrNull(body.accountNo),
     working_days |-> PgNumber(OrNull(body.workingDays)),
     lop |-> PgNumber(OrZero(body.lop)),
     pan |-> OrNull(body.pan),
     earnings |-> JsonStringify(body.earnings.items),
     deductions |-> JsonStringify(body.deductions.items),
     gross_pay |-> PgNumber(body.grossPay),
     total_deductions |-> PgNumber(body.totalDeductions),
     net_pay |-> PgNumber(body.netPay),
     created_at |-> createdAt]

\* '^\d{4}-\d{2}$'
MatchesMonthYear(s) ==
    /\ Len(s) = 7
    /\ AllIn(SubSeq(s, 1, 4), Digits)
    /\ s[5] = "-"
    /\ AllIn(SubSeq(s, 6, 7), Digits)

\* VARCHAR(n): null, or a string of at most n characters
VarcharFits(v, n) == v.t = "null" \/ (v.t = "string" /\ Len(v.s) <= n)

\* INTEGER and DECIMAL: null or a number
NumberFits(v) == v.t \in {"null", "number"}

\* a CHECK constraint passes on null
CheckPasses(v, ok) == v.t = "null" \/ ok

UniqueViolation == "Internal server error: duplicate key value violates unique constraint"

\* the table without its uniqueness constraint
UniqueNotEnforced(values, rows) == FALSE

\* CONSTRAINT unique_employee_month_year UNIQUE (employee_id, month_year)
UniqueEmployeeMonthYearViolated(values, rows) ==
    \E r \in rows : /\ r.employee_id = values.employee_id
                    /\ r.month_year = values.month_year

\* the error of INSERT ... VALUES values into rows, "" when the row is inserted
InsertError(values, rows) ==
    IF ~(/\ VarcharFits(values.employee_id, 7)
         /\ VarcharFits(values.employee_name, 30)
         /\ VarcharFits(values.designation, 30)
         /\ VarcharFits(values.month_year, 7)
         /\ VarcharFits(values.location, 30)
         /\ VarcharFits(values.bank_name, 30)
         /\ VarcharFits(values.account_no, 16)
         /\ VarcharFits(values.pan, 10)
         /\ NumberFits(values.working_days)
         /\ NumberFits(values.lop)
         /\ NumberFits(values.gross_pay)
         /\ NumberFits(values.total_deductions)
         /\ NumberFits(values.net_pay))
    THEN "Internal server error: invalid input value"
    ELSE IF \E v \in {values.employee_id, values.month_year, values.gross_pay,
                      values.total_deductions, values.net_pay} : v.t = "null"
    THEN "Internal server error: null value violates not-null constraint"
    ELSE IF ~(/\ MatchesEmployeeId(values.employee_id.s)
              /\ MatchesMonthYear(values.month_year.s)
              /\ CheckPasses(values.account_no, MatchesBankAccount(values.account_no.s))
              /\ CheckPasses(values.working_days,
                             values.working_days.n >= 0 /\ values.working_days.n <= 31)
              /\ CheckPasses(values.lop, values.lop.n >= 0 /\ values.lop.n <= 31)
              /\ CheckPasses(values.pan, MatchesPAN(values.pan.s))
              /\ values.gross_pay.n >= 0
              /\ values.total_deductions.n >= 0
              /\ values.net_pay.n >= 0)
    THEN "Internal server error: new row violates check constraint"
    ELSE IF UniqueEmployeeMonthYearViolated(values, rows) THEN UniqueViolation
    ELSE ""

\* the row the INSERT stores: the values and the id drawn from the sequence
Row(values, id) ==
    [id |-> id,
     employee_id |-> values.employee_id, employee_name |-> values.employee_name,
     designation |-> values.designation, month_year |-> values.month_year,
     location |-> values.location, bank_name |-> values.bank_name,
     account_no |-> values.account_no, working_days |-> values.working_days,
     lop |-> values.lop, pan |-> values.pan, earnings |-> values.earnings,
     deductions |-> values.deductions, gross_pay |-> values.gross_pay,
     total_deductions |-> values.total_deductions, net_pay |-> values.net_pay,
     created_at |-> values.created_at]

\* the duplicate check with its two parameters in the wrong order
SelectByMonthEmployee(rows, employeeId, monthYear) ==
    {r \in rows : r.employee_id = monthYear /\ r.month_year = employeeId}

\* SELECT id FROM payslips WHERE employee_id = $1 AND month_year = $2
SelectByEmployeeMonth(rows, employeeId, monthYear) ==
    {r \in rows : r.employee_id = employeeId /\ r.month_year = monthYear}

\* SELECT * FROM payslips WHERE id = $1
SelectById(rows, id) == {r \in rows : r.id = id}

(***************************************************************************)
(* GET /api/payslips/all: the summary view.                                *)
(***************************************************************************)
MonthNames == <<"January", "February", "March", "April", "May", "June",
                "July", "August", "September", "October", "November", "December">>

\* formatMonthYear: new Date(year, parseInt(month) - 1).getMonth() wraps a
\* month outside 1..12 into the calendar
formatMonthYear(monthYear) ==
    [month |-> MonthNames[((ParseDigits(SubSeq(monthYear, 6, 7)) - 1) % 12) + 1],
     year |-> SubSeq(monthYear, 1, 4)]

Summary(payslip) ==
    [id |-> payslip.id, employeeId |-> payslip.employee_id,
     employeeName |-> payslip.employee_name, monthYear |-> payslip.month_year,
     monthYearFormatted |-> formatMonthYear(payslip.month_year.s),
     netPay |-> payslip.net_pay.n, createdAt |-> payslip.created_at]

\* ORDER BY created_at, ascending
OrderedByCreatedAtAsc(f) ==
    \A i, j \in DOMAIN f : i < j => f[i].created_at <= f[j].created_at

\* ORDER BY created_at DESC
OrderedByCreatedAtDesc(f) ==
    \A i, j \in DOMAIN f : i < j => f[i].created_at >= f[j].created_at

\* the results SELECT * FROM payslips ORDER BY created_at DESC may return:
\* rows of equal created_at come in any order
SelectAllOrdered(rows) ==
    {f \in [1..Cardinality(rows) -> rows] :
        /\ \A i, j \in DOMAIN f : i # j => f[i] # f[j]
        /\ OrderedByCreatedAtDesc(f)}

(***************************************************************************)
(* GET /api/payslips: the lookup by employee, month and year.              *)
(***************************************************************************)
\* month.padStart(2, '0'): zeros in front up to two characters, a longer
\* string as it is
PadStart2(s) == IF Len(s) = 0 THEN <<"0", "0">>
                ELSE IF Len(s) = 1 THEN <<"0">> \o s
                ELSE s

\* `${year}-${month.padStart(2, '0')}`
PeriodKey(year, month) == year \o <<"-">> \o PadStart2(month)

\* s LIKE pattern: % stands for any characters, _ for any one character
RECURSIVE Like(_, _)
Like(s, pattern) ==
    IF pattern = <<>> THEN s = <<>>
    ELSE IF Head(pattern) = "%"
         THEN Like(s, Tail(pattern)) \/ (s # <<>> /\ Like(Tail(s), pattern))
    ELSE /\ s # <<>>
         /\ (Head(pattern) = "_" \/ Head(pattern) = Head(s))
         /\ Like(Tail(s), Tail(pattern))

\* SELECT * FROM payslips WHERE employee_id = $1 AND month_year LIKE $2
SelectByEmployeeMonthLike(rows, employeeId, pattern) ==
    {r \in rows : r.employee_id.s = employeeId /\ Like(r.month_year.s, pattern)}

IsLeapYear(y) == (y % 4 = 0 /\ y % 100 # 0) \/ y % 400 = 0

\* getDaysInMonth: new Date(year, month, 0).getDate(), the last day of the
\* month; a month outside 1..12 wraps into the next or the previous year
getDaysInMonth(monthYear) ==
    LET year == ParseDigits(SubSeq(monthYear, 1, 4))
        month == ParseDigits(SubSeq(monthYear, 6, 7))
        m == ((month - 1) % 12) + 1
        y == IF month = 0 THEN year - 1 ELSE year + ((month - 1) \div 12)
    IN  IF m = 2 THEN (IF IsLeapYear(y) THEN 29 ELSE 28)
        ELSE IF m \in {4, 6, 9, 11} THEN 30
        ELSE 31

\* the fields the handler adds to the row it returns
Enrichment(payslip) ==
    [monthYearFormatted |-> formatMonthYear(payslip.month_year.s),
     daysInMonth |-> getDaysInMonth(payslip.month_year.s)]

\* a query parameter given as month[]=1: an array, which has no padStart
QueryArray == [t |-> "array", s |-> <<>>, n |-> 0]

Year2024 == <<"2", "0", "2", "4">>
Query(employeeId, month, year) ==
    [employeeId |-> employeeId, month |-> month, year |-> year]

\* the query strings of the validation workload: the lookup of one employee
\* and month, and the queries that differ from it in one field: a field that
\* is missing, another employee, a month of two characters, months that are
\* LIKE wildcards, a month that is no string
Queries ==
    LET q == Query(Str(ATS0123), Str(<<"1">>), Str(Year2024))
    IN  {q}
        \cup {[q EXCEPT !.employeeId = v] : v \in {Undefined, Str(ATS0456), Str(ATS0000)}}
        \cup {[q EXCEPT !.month = v] :
                v \in {Undefined, Str(<<"0", "2">>), Str(<<"1", "2">>),
                       Str(<<"_", "1">>), Str(<<"%">>), QueryArray}}
        \cup {[q EXCEPT !.year = v] : v \in {Undefined}}

\* the query strings of the concurrent workload: a month of one character and
\* a month that is a LIKE wildcard
ConcurrentQueries ==
    {Query(Str(ATS0123), Str(<<"1">>), Str(Year2024)),
     Query(Str(ATS0123), Str(<<"%">>), Str(Year2024))}

(***************************************************************************)
(* State.                                                                  *)
(***************************************************************************)
NoBody ==
    [employeeId |-> Undefined, employeeName |-> Undefined, designation |-> Undefined,
     monthYear |-> Undefined, location |-> Undefined, bankName |-> Undefined,
     accountNo |-> Undefined, workingDays |-> Undefined, lop |-> Undefined,
     pan |-> Undefined, earnings |-> NoArray, deductions |-> NoArray,
     grossPay |-> Undefined, totalDeductions |-> Undefined, netPay |-> Undefined]

\* a client's request: the handler entered, the id of its path, and for a
\* create in progress its body and the created_at of its values
Request(op, id, body, createdAt) ==
    [op |-> op, id |-> id, body |-> body, created_at |-> createdAt]

NoRequest == Request("", 0, NoBody, 0)

\* the ids a client may name in a path: every id the sequence can have issued
Ids == 1..MaxRequests

\* the table when the process starts: empty, or holding one payslip that an
\* earlier run of the process created at the first reading of the clock
StoredAtStart == {{}, {Row(Values(Body(ATS0123, Jan2024), 0), 1)}}

\* the service when the process starts
ServiceInit ==
    /\ payslips \in StoredAtStart
    /\ payslips_id_seq = Cardinality(payslips) + 1
    /\ now = 0
    /\ running = TRUE
    /\ pc = [c \in Clients |-> "ready"]
    /\ req = [c \in Clients |-> NoRequest]
    /\ res = [c \in Clients |-> NoResponse]
    /\ served = 0
    /\ deletedIds = {}
    /\ succeeded = {[employee_id |-> r.employee_id, month_year |-> r.month_year,
                     id |-> r.id] : r \in payslips}

Init ==
    /\ ServiceInit
    /\ args = <<>>
    /\ returned = <<>>

\* a process that goes on serving after the pool reported an error
AcceptsAfterExit(c) == pc[c] = "ready" /\ served < MaxRequests

\* a handler is entered: the process runs and the client has no request open
Accepts(c) == running /\ pc[c] = "ready" /\ served < MaxRequests

\* a response that is sent without ending the handler
RespondWithoutReturn(c, op, id, r) ==
    /\ res' = [res EXCEPT ![c] = r]
    /\ pc' = pc
    /\ req' = [req EXCEPT ![c].op = op, ![c].id = id]

\* the response to client c's request op for id
Respond(c, op, id, r) ==
    /\ res' = [res EXCEPT ![c] = r]
    /\ pc' = [pc EXCEPT ![c] = "ready"]
    /\ req' = [req EXCEPT ![c] = Request(op, id, NoBody, 0)]

QueryFailed == InternalError("Internal server error: query failed")

(***************************************************************************)
(* POST /api/payslips.                                                     *)
(***************************************************************************)
\* lines 77-155: the body is validated and the duplicate check is sent
PostPayslips(c, body) ==
    /\ Accepts(c)
    /\ served' = served + 1
    /\ IF ValidationResult(body) # NoResponse
       THEN Respond(c, "create", 0, ValidationResult(body))
       ELSE /\ pc' = [pc EXCEPT ![c] = "checkQuery"]
            /\ req' = [req EXCEPT ![c] = Request("create", 0, body, 0)]
            /\ res' = [res EXCEPT ![c] = NoResponse]
    /\ UNCHANGED <<payslips, payslips_id_seq, now, running, deletedIds, succeeded, call>>

\* lines 155-177: the duplicate check runs; on no row the values are built,
\* created_at from new Date(), and the insert is sent.  now is the last
\* reading of the clock, and a reading is never before the last one.
CheckDuplicate(c, queryOk) ==
    /\ running
    /\ pc[c] = "checkQuery"
    /\ IF ~queryOk
       THEN /\ Respond(c, "create", 0, QueryFailed)
            /\ UNCHANGED now
       ELSE IF SelectByEmployeeMonth(payslips, PgParam(req[c].body.employeeId),
                                     PgParam(req[c].body.monthYear)) # {}
       THEN /\ Respond(c, "create", 0, BadRequest(DuplicateMessage))
            /\ UNCHANGED now
       ELSE /\ now' \in now..MaxTime
            /\ pc' = [pc EXCEPT ![c] = "insertQuery"]
            /\ req' = [req EXCEPT ![c].created_at = now']
            /\ UNCHANGED res
    /\ UNCHANGED <<payslips, payslips_id_seq, running, served, deletedIds, succeeded, call>>

\* an id computed from the rows stored: one more than the greatest
MaxIdPlusOne(sequence, rows) ==
    IF rows = {} THEN 1
    ELSE (CHOOSE i \in {r.id : r \in rows} : \A r \in rows : r.id <= i) + 1

\* id SERIAL: the id of a new row is the next value of the sequence, whatever
\* rows the table holds
AssignedId(sequence, rows) == sequence

\* lines 179-184: the insert runs.  The statement draws the next id from the
\* sequence whether or not a constraint then rejects the row.
InsertPayslip(c, queryOk) ==
    /\ running
    /\ pc[c] = "insertQuery"
    /\ LET values == Values(req[c].body, req[c].created_at)
           error == InsertError(values, payslips)
           row == Row(values, AssignedId(payslips_id_seq, payslips))
       IN  IF ~queryOk
           THEN /\ Respond(c, "create", 0, QueryFailed)
                /\ UNCHANGED <<payslips, payslips_id_seq, succeeded>>
           ELSE IF error # ""
           THEN /\ Respond(c, "create", 0, InternalError(error))
                /\ payslips_id_seq' = payslips_id_seq + 1
                /\ UNCHANGED <<payslips, succeeded>>
           ELSE /\ Respond(c, "create", 0, Created(row.id))
                /\ payslips' = payslips \cup {row}
                /\ payslips_id_seq' = payslips_id_seq + 1
                /\ succeeded' = succeeded \cup
                       {[employee_id |-> row.employee_id,
                         month_year |-> row.month_year, id |-> row.id]}
    /\ UNCHANGED <<now, running, served, deletedIds, call>>

(***************************************************************************)
(* GET /api/payslips/all, GET /api/payslips/:id, DELETE /api/payslips/:id. *)
(* Each sends one statement and answers from its result.                   *)
(***************************************************************************)
GetAllPayslips(c, queryOk) ==
    /\ Accepts(c)
    /\ served' = served + 1
    /\ IF ~queryOk
       THEN Respond(c, "list", 0, QueryFailed)
       ELSE \E f \in SelectAllOrdered(payslips) :
                Respond(c, "list", 0,
                        Response(200, "", <<>>, 0, <<>>,
                                 [i \in DOMAIN f |-> Summary(f[i])]))
    /\ UNCHANGED <<payslips, payslips_id_seq, now, running, deletedIds, succeeded, call>>

\* lines 278-306: the answer to a query that returned the rows of id
GetByIdResponse(rows, id) ==
    IF SelectById(rows, id) = {}
    THEN NotFound("Payslip not found")
    ELSE Response(200, "", <<>>, 0, <<CHOOSE r \in SelectById(rows, id) : TRUE>>, <<>>)

GetPayslipById(c, id, queryOk) ==
    /\ Accepts(c)
    /\ served' = served + 1
    /\ IF ~queryOk
       THEN Respond(c, "getById", id, QueryFailed)
       ELSE Respond(c, "getById", id, GetByIdResponse(payslips, id))
    /\ UNCHANGED <<payslips, payslips_id_seq, now, running, deletedIds, succeeded, call>>

\* GET /api/payslips.  Of the rows the query returns the handler answers
\* with rows[0], and the query states no order.
GetPayslips(c, employeeId, month, year, queryOk) ==
    /\ Accepts(c)
    /\ served' = served + 1
    /\ IF ~Truthy(employeeId) \/ ~Truthy(month) \/ ~Truthy(year)
       THEN Respond(c, "getByIdentity", 0,
                    BadRequest("Employee ID, month, and year are required"))
       ELSE IF ~validateEmployeeId(employeeId)
       THEN Respond(c, "getByIdentity", 0, BadRequest("Invalid Employee ID format"))
       ELSE IF month.t # "string"
       THEN Respond(c, "getByIdentity", 0, InternalError(TypeErrorMessage))
       ELSE IF ~queryOk
       THEN Respond(c, "getByIdentity", 0, QueryFailed)
       ELSE LET monthYear == PeriodKey(year.s, month.s)
                rows == SelectByEmployeeMonthLike(payslips, employeeId.s,
                                                  monthYear \o <<"%">>)
            IN  IF rows = {}
                THEN Respond(c, "getByIdentity", 0, NotFound("No payslips found"))
                ELSE \E payslip \in rows :
                        Respond(c, "getByIdentity", 0,
                                Response(200, "", <<>>, 0, <<payslip>>,
                                         <<Enrichment(payslip)>>))
    /\ UNCHANGED <<payslips, payslips_id_seq, now, running, deletedIds, succeeded, call>>

\* the table after a DELETE that lost its WHERE clause
DeleteWithoutWhere(rows, id) == {}

\* the table after DELETE FROM payslips WHERE id = $1
DeleteById(rows, id) == {r \in rows : r.id # id}

\* answered from result.rowCount, the number of rows the statement deleted
DeletePayslip(c, id, queryOk) ==
    /\ Accepts(c)
    /\ served' = served + 1
    /\ IF ~queryOk
       THEN /\ Respond(c, "delete", id, QueryFailed)
            /\ UNCHANGED <<payslips, deletedIds, succeeded>>
       ELSE IF Cardinality(payslips \ DeleteById(payslips, id)) = 0
       THEN /\ Respond(c, "delete", id, NotFound("Payslip not found"))
            /\ payslips' = DeleteById(payslips, id)
            /\ UNCHANGED <<deletedIds, succeeded>>
       ELSE /\ Respond(c, "delete", id,
                       Response(200, "Payslip deleted successfully", <<>>, 0,
                                <<>>, <<>>))
            /\ payslips' = DeleteById(payslips, id)
            /\ deletedIds' = deletedIds \cup {r.id : r \in payslips \ payslips'}
            /\ succeeded' =
                 {s \in succeeded :
                     \A r \in payslips \ payslips' :
                         ~(s.employee_id = r.employee_id /\ s.month_year = r.month_year)}
    /\ UNCHANGED <<payslips_id_seq, now, running, call>>

(***************************************************************************)
(* pool.on('error').                                                       *)
(***************************************************************************)
\* lines 347-350: process.exit(-1)
PoolError ==
    /\ running
    /\ running' = FALSE
    /\ UNCHANGED <<payslips, payslips_id_seq, now, pc, req, res, served,
                   deletedIds, succeeded, call>>

\* two clients whose requests interleave
Next ==
    \/ \E c \in Clients, body \in ConcurrentBodies : PostPayslips(c, body)
    \/ \E c \in Clients, queryOk \in BOOLEAN : CheckDuplicate(c, queryOk)
    \/ \E c \in Clients, queryOk \in BOOLEAN : InsertPayslip(c, queryOk)
    \/ \E c \in Clients, q \in ConcurrentQueries, queryOk \in BOOLEAN :
            GetPayslips(c, q.employeeId, q.month, q.year, queryOk)
    \/ \E c \in Clients, queryOk \in BOOLEAN : GetAllPayslips(c, queryOk)
    \/ \E c \in Clients, id \in Ids, queryOk \in BOOLEAN : GetPayslipById(c, id, queryOk)
    \/ \E c \in Clients, id \in Ids, queryOk \in BOOLEAN : DeletePayslip(c, id, queryOk)
    \/ PoolError

Spec == Init /\ [][Next]_vars

\* the step that continues client c's open create, when the query it awaits
\* returns or throws
Settle(c) ==
    \E queryOk \in BOOLEAN : CheckDuplicate(c, queryOk) \/ InsertPayslip(c, queryOk)

\* every query a handler awaits returns or throws
QueriesSettle == \A c \in Clients : WF_vars(Settle(c))

\* the request bodies of the workload of open requests: a body that is
\* accepted, one the validation rejects and one the table rejects, so that a
\* create ends on each of its paths
SettlingBodies ==
    {Body(ATS0123, Jan2024),
     [Body(ATS0123, Jan2024) EXCEPT !.employeeName = Str(Bob)],
     [Body(ATS0123, Jan2024) EXCEPT !.monthYear = Str(ShortMonth)]}

\* the lookup and the id of that workload: those of the payslip the accepted
\* body creates first
SettlingQuery == Query(Str(ATS0123), Str(<<"1">>), Str(Year2024))
SettlingIds == {1}

NextSettling ==
    \/ \E c \in Clients, body \in SettlingBodies : PostPayslips(c, body)
    \/ \E c \in Clients, queryOk \in BOOLEAN : CheckDuplicate(c, queryOk)
    \/ \E c \in Clients, queryOk \in BOOLEAN : InsertPayslip(c, queryOk)
    \/ \E c \in Clients, queryOk \in BOOLEAN :
            GetPayslips(c, SettlingQuery.employeeId, SettlingQuery.month,
                        SettlingQuery.year, queryOk)
    \/ \E c \in Clients, queryOk \in BOOLEAN : GetAllPayslips(c, queryOk)
    \/ \E c \in Clients, id \in SettlingIds, queryOk \in BOOLEAN :
            GetPayslipById(c, id, queryOk)
    \/ \E c \in Clients, id \in SettlingIds, queryOk \in BOOLEAN :
            DeletePayslip(c, id, queryOk)
    \/ PoolError

SpecSettling == Init /\ [][NextSettling]_vars /\ QueriesSettle

\* one client that sends every body of Bodies
NextValidation ==
    \/ \E body \in Bodies : PostPayslips(1, body)
    \/ \E queryOk \in BOOLEAN : CheckDuplicate(1, queryOk)
    \/ \E queryOk \in BOOLEAN : InsertPayslip(1, queryOk)
    \/ \E q \in Queries, queryOk \in BOOLEAN :
            GetPayslips(1, q.employeeId, q.month, q.year, queryOk)
    \/ \E queryOk \in BOOLEAN : GetAllPayslips(1, queryOk)
    \/ \E id \in Ids, queryOk \in BOOLEAN : GetPayslipById(1, id, queryOk)
    \/ \E id \in Ids, queryOk \in BOOLEAN : DeletePayslip(1, id, queryOk)
    \/ PoolError

SpecValidation == Init /\ [][NextValidation]_vars

(***************************************************************************)
(* Calls of the helper functions: args holds the arguments of one call,    *)
(* returned the value it returned, <<>> before the call.                   *)
(***************************************************************************)
\* the strings of at most n characters of S
RECURSIVE StringsUpTo(_, _)
StringsUpTo(S, n) ==
    IF n = 0 THEN {<<>>}
    ELSE LET shorter == StringsUpTo(S, n - 1)
         IN  shorter \cup {Append(s, ch) : s \in shorter, ch \in S}

\* the characters after the prefix of an employee id, at most MaxIdTail
MaxIdTail == 4
IdTailChars == {"0", "1", "9", "a"}
IdPrefixes == {<<>>, <<"A", "T", "S">>, <<"A", "T", "S", "0">>,
               <<"A", "T", "S", "1">>, <<"a", "t", "s", "0">>,
               <<"T", "S", "0">>, <<"A", "A", "T", "S", "0">>,
               <<" ", "A", "T", "S", "0">>}
IdSuffixes == {<<>>, <<" ">>}

EmployeeIdArgs ==
    {<<Str(p \o d \o x)>> :
        p \in IdPrefixes, d \in StringsUpTo(IdTailChars, MaxIdTail), x \in IdSuffixes}

CallValidateEmployeeId ==
    /\ returned = <<>>
    /\ returned' = <<validateEmployeeId(args[1])>>
    /\ UNCHANGED <<service, args>>

InitEmployeeId == ServiceInit /\ args \in EmployeeIdArgs /\ returned = <<>>
NextEmployeeId == CallValidateEmployeeId
SpecEmployeeId == InitEmployeeId /\ [][NextEmployeeId]_vars

\* a run of n letters
RECURSIVE LetterRun(_, _)
LetterRun(ch, n) == IF n = 0 THEN <<>> ELSE <<ch>> \o LetterRun(ch, n - 1)

\* names of two runs of letters around a separator, in white space: the first
\* run of at most MaxNameLength letters, one more than the validator allows
MaxNameLength == 31
NameSeparators == {<<>>, <<" ">>, <<" ", " ">>, <<"\t">>, <<"-">>, <<"1">>}
NamePadding == {<<>>, <<" ">>, <<"\t">>}
SecondRunLengths == {0, 1, 3}

AlphabeticArgs ==
    {<<Str(lead \o LetterRun("a", n1) \o sep \o LetterRun("B", n2) \o trail)>> :
        lead \in NamePadding, n1 \in 0..MaxNameLength, sep \in NameSeparators,
        n2 \in SecondRunLengths, trail \in NamePadding}

CallValidateAlphabeticWithSpaces ==
    /\ returned = <<>>
    /\ returned' = <<validateAlphabeticWithSpaces(args[1])>>
    /\ UNCHANGED <<service, args>>

InitAlphabetic == ServiceInit /\ args \in AlphabeticArgs /\ returned = <<>>
NextAlphabetic == CallValidateAlphabeticWithSpaces
SpecAlphabetic == InitAlphabetic /\ [][NextAlphabetic]_vars

\* Math.round(x * 100) for the quotient x = numerator / denominator of two
\* integers, denominator > 0: the integer nearest to 100 x.  The code
\* computes x in floating point, so that where 100 x lies exactly half way
\* between two integers the rounding error decides which of the two is
\* returned; everywhere else the error is too small to matter.
RoundedHundredths(numerator, denominator) ==
    LET twice == 200 * numerator + denominator
    IN  IF twice % (2 * denominator) = 0
        THEN {(twice \div (2 * denominator)) - 1, twice \div (2 * denominator)}
        ELSE {twice \div (2 * denominator)}

\* a quotient cut off after two decimals instead of rounded
TruncatedLOPDeduction(grossPay, workingDays, lop) ==
    IF IsNaN(grossPay) \/ IsNaN(workingDays) \/ IsNaN(lop) \/ workingDays = Num(0)
    THEN {0}
    ELSE IF workingDays.n > 0
    THEN {(100 * grossPay.n * lop.n) \div workingDays.n}
    ELSE {(0 - 100 * grossPay.n * lop.n) \div (0 - workingDays.n)}

\* calculateLOPDeduction on numbers: the values it may return, in hundredths
calculateLOPDeduction(grossPay, workingDays, lop) ==
    IF IsNaN(grossPay) \/ IsNaN(workingDays) \/ IsNaN(lop) \/ workingDays = Num(0)
    THEN {0}
    ELSE IF workingDays.n > 0
    THEN RoundedHundredths(grossPay.n * lop.n, workingDays.n)
    ELSE RoundedHundredths(0 - grossPay.n * lop.n, 0 - workingDays.n)

\* the arguments of the calls: whole amounts, days up to MaxLopDays and a few
\* beyond the calendar, NaN and values that convert to NaN
MaxLopDays == 31
NotNumbers == {NaN, Undefined, Str(NotANumber)}
GrossPays == {Num(n) : n \in {-100, 0, 1, 100, 201, 30000}} \cup NotNumbers
WorkingDaysArgs == {Num(n) : n \in (-2..MaxLopDays) \cup {200}} \cup NotNumbers
LopArgs == {Num(n) : n \in -1..MaxLopDays} \cup NotNumbers

LOPDeductionArgs ==
    {<<g, w, l>> : g \in GrossPays, w \in WorkingDaysArgs, l \in LopArgs}

CallCalculateLOPDeduction ==
    /\ returned = <<>>
    /\ \E r \in calculateLOPDeduction(args[1], args[2], args[3]) : returned' = <<r>>
    /\ UNCHANGED <<service, args>>

InitLOPDeduction == ServiceInit /\ args \in LOPDeductionArgs /\ returned = <<>>
NextLOPDeduction == CallCalculateLOPDeduction
SpecLOPDeduction == InitLOPDeduction /\ [][NextLOPDeduction]_vars

(***************************************************************************)
(* Properties.                                                             *)
(***************************************************************************)
SamePair(a, b) == a.employee_id = b.employee_id /\ a.month_year = b.month_year

\* C1: in every reachable state the table holds at most one payslip for each
\* (employee_id, month_year) pair
C1_UniqueEmployeeMonthYear ==
    \A r1, r2 \in payslips : SamePair(r1, r2) => r1 = r2

\* a payslip is stored after a delete succeeded and after the constraint
\* rejected a concurrent insert
C1_Witness ==
    /\ deletedIds # {}
    /\ payslips # {}
    /\ \E c \in Clients : res[c].error = UniqueViolation

\* C2: of the create requests for one pair answered 201 since the last delete
\* of that pair's payslip, there is at most one
C2_AtMostOneSuccess ==
    \A s1, s2 \in succeeded : SamePair(s1, s2) => s1 = s2

\* two creates passed the duplicate check together: one is answered 201, the
\* other is the insert the constraint rejected
C2_Witness ==
    \E c1, c2 \in Clients :
        /\ c1 # c2
        /\ res[c1].status = 201
        /\ res[c2].error = UniqueViolation
        /\ \E s \in succeeded : s.id = res[c1].id

\* C3: a create whose insert the uniqueness constraint rejects is answered
\* with the Duplicate error of the pre-check (400), not with a 500
C3_LosingInsertIsDuplicate ==
    [][\A c \in Clients :
          (/\ pc[c] = "insertQuery"
           /\ InsertPayslip(c, TRUE)
           /\ InsertError(Values(req[c].body, req[c].created_at), payslips)
                = UniqueViolation)
          => res'[c] = BadRequest(DuplicateMessage)]_vars

C5_DeletedStaysNotFound ==
    [][\A c \in Clients, id \in Ids :
          (id \in deletedIds /\ req'[c].op = "getById" /\ GetPayslipById(c, id, TRUE))
          => res'[c] = NotFound("Payslip not found")]_vars

\* a getById of a deleted id was answered 404 while a payslip created after
\* the deleted one is stored
C5_Witness ==
    \E c \in Clients :
        /\ req[c].op = "getById"
        /\ req[c].id \in deletedIds
        /\ res[c].status = 404
        /\ \E r \in payslips : r.id > req[c].id

\* C6: a delete of an id no payslip has is answered 404 and leaves the table
\* unchanged; a delete of a stored id removes that one payslip and no other
C6_DeleteExactlyOne ==
    [][\A c \in Clients, id \in Ids :
          (req'[c].op = "delete" /\ DeletePayslip(c, id, TRUE))
          => IF \A r \in payslips : r.id # id
             THEN res'[c].status = 404 /\ payslips' = payslips
             ELSE /\ res'[c].status = 200
                  /\ payslips' = payslips \ {r \in payslips : r.id = id}
                  /\ Cardinality(payslips') = Cardinality(payslips) - 1]_vars

\* one delete succeeded and left another payslip stored, another delete was
\* answered 404
C6_Witness ==
    \E c1, c2 \in Clients :
        /\ req[c1].op = "delete" /\ res[c1].status = 200
        /\ req[c2].op = "delete" /\ res[c2].status = 404
        /\ payslips # {}

\* C7: the list holds one summary for each payslip stored when the query
\* runs, and of two entries with different creation times the later comes
\* first
C7_ListNewestFirst ==
    [][\A c \in Clients :
          (req'[c].op = "list" /\ GetAllPayslips(c, TRUE))
          => LET list == res'[c].list
             IN  /\ res'[c].status = 200
                 /\ Len(list) = Cardinality(payslips)
                 /\ {list[i] : i \in 1..Len(list)} = {Summary(r) : r \in payslips}
                 /\ \A i, j \in 1..Len(list) :
                        (i < j /\ list[i].createdAt # list[j].createdAt)
                        => list[i].createdAt > list[j].createdAt]_vars

\* a list of two payslips with different creation times was returned
C7_Witness ==
    \E c \in Clients :
        /\ req[c].op = "list"
        /\ Len(res[c].list) >= 2
        /\ res[c].list[1].createdAt > res[c].list[2].createdAt

\* C8: a create whose earnings is an empty array is answered 400 and stores
\* nothing, whatever its other fields are
C8_EmptyEarningsRejected ==
    [][\A c \in Clients, body \in Bodies :
          (body.earnings = Array(<<>>) /\ PostPayslips(c, body))
          => /\ res'[c].status = 400
             /\ pc'[c] = "ready"
             /\ payslips' = payslips]_vars

\* a line item of a stored payslip that follows the rules: a component name
\* validateAlphabeticWithSpaces accepts and an amount that is a number >= 0
ValidStoredItem(item) ==
    /\ item.component.t = "string"
    /\ validateAlphabeticWithSpaces(item.component)
    /\ item.amount.t = "number"
    /\ item.amount.n >= 0

\* an optional column: null, or a value ok holds of
NullOr(v, ok) == v.t = "null" \/ ok

\* C9: every stored payslip satisfies the field rules
C9_StoredPayslipsValid ==
    \A r \in payslips :
        /\ validateEmployeeId(r.employee_id)
        /\ r.month_year.t = "string" /\ MatchesMonthYear(r.month_year.s)
        /\ Len(r.earnings) > 0
        /\ \A i \in 1..Len(r.earnings) : ValidStoredItem(r.earnings[i])
        /\ \A i \in 1..Len(r.deductions) : ValidStoredItem(r.deductions[i])
        /\ \A v \in {r.employee_name, r.designation, r.location, r.bank_name} :
              NullOr(v, v.t = "string" /\ validateAlphabeticWithSpaces(v))
        /\ NullOr(r.account_no, r.account_no.t = "string" /\ validateBankAccount(r.account_no))
        /\ NullOr(r.pan, validatePAN(r.pan))
        /\ \A v \in {r.working_days, r.lop} :
              NullOr(v, v.t = "number" /\ v.n >= 0 /\ v.n <= 31)

\* a line item of a request that breaks a rule of the line-item validator
InvalidItem(item) ==
    \/ item.component.t # "string"
    \/ ~validateAlphabeticWithSpaces(item.component)
    \/ item.amount.t # "number"
    \/ item.amount.n < 0

\* the line items of a body in the order they are scanned, each with the
\* collection it comes from
ScannedItems(body) ==
    [i \in 1..Len(body.earnings.items) |->
        [kind |-> "earning", item |-> body.earnings.items[i]]]
    \o [i \in 1..Len(body.deductions.items) |->
        [kind |-> "deduction", item |-> body.deductions.items[i]]]

\* the body with line items every rule accepts
WithValidItems(body) ==
    [body EXCEPT !.earnings = Array(<<Item(Str(BasicPay), Num(1000))>>),
                 !.deductions = Array(<<>>)]

\* C10: a create that passes the field checks, has earnings, and has an
\* invalid line item is rejected with 400 naming the component and the
\* collection of the first invalid item, and stores nothing
C10_FirstInvalidItemReported ==
    [][\A c \in Clients, body \in Bodies :
          (/\ PostPayslips(c, body)
           /\ ValidationResult(WithValidItems(body)) = NoResponse
           /\ body.earnings.t = "array" /\ Len(body.earnings.items) > 0
           /\ body.deductions.t = "array"
           /\ \E i \in DOMAIN ScannedItems(body) : InvalidItem(ScannedItems(body)[i].item))
          => LET items == ScannedItems(body)
                 first == CHOOSE i \in DOMAIN items :
                              /\ InvalidItem(items[i].item)
                              /\ \A j \in 1..(i - 1) : ~InvalidItem(items[j].item)
             IN  /\ res'[c].status = 400
                 /\ res'[c].error \in {"Invalid " \o items[first].kind \o " component name",
                                       "Invalid " \o items[first].kind \o " amount"}
                 /\ res'[c].component = items[first].item.component.s
                 /\ pc'[c] = "ready"
                 /\ payslips' = payslips]_vars

StoredForPeriod(employeeId, key) ==
    {r \in payslips : r.employee_id.s = employeeId /\ r.month_year.s = key}

\* C12: a lookup by a valid employee id, a month and a year whose query
\* returns is answered with the stored payslip of that employee whose
\* month_year equals year-month (the month padded to two characters), and
\* with NotFound when there is none; the query matches at most one row
C12_LookupByPeriodKey ==
    [][\A c \in Clients, q \in ConcurrentQueries :
          (/\ req'[c].op = "getByIdentity"
           /\ validateEmployeeId(q.employeeId)
           /\ q.month.t = "string" /\ q.month.s # <<>>
           /\ q.year.t = "string" /\ q.year.s # <<>>
           /\ GetPayslips(c, q.employeeId, q.month, q.year, TRUE))
          => LET key == PeriodKey(q.year.s, q.month.s)
                 stored == StoredForPeriod(q.employeeId.s, key)
             IN  /\ Cardinality(SelectByEmployeeMonthLike(
                                    payslips, q.employeeId.s, key \o <<"%">>)) <= 1
                 /\ IF stored = {}
                    THEN res'[c] = NotFound("No payslips found")
                    ELSE /\ res'[c].status = 200
                         /\ res'[c].rows[1] \in stored]_vars

\* the ids of the payslips stored so far: those stored now and those deleted
IssuedIds == deletedIds \cup {r.id : r \in payslips}

\* C13: a create that is answered 201 returns an id greater than the id of
\* every payslip stored before it, deleted ones included, and stores its
\* payslip under that id; no two stored payslips share an id
C13_IdsUniqueAndIncreasing ==
    [][\A c \in Clients :
          (/\ pc[c] = "insertQuery"
           /\ InsertPayslip(c, TRUE)
           /\ res'[c].status = 201)
          => /\ \A i \in IssuedIds : res'[c].id > i
             /\ \E r \in payslips' \ payslips : r.id = res'[c].id
             /\ \A r1, r2 \in payslips' : r1.id = r2.id => r1 = r2]_vars

\* the payslip stored at the start was deleted, an insert was rejected after
\* it drew an id, and a create of the deleted payslip's pair was answered
\* 201 with the third id
C13_Witness ==
    \E c \in Clients :
        /\ res[c] = Created(3)
        /\ 1 \in deletedIds
        /\ \E r \in payslips : /\ r.id = 3
                               /\ r.employee_id.s = ATS0123
                               /\ r.month_year.s = Jan2024

\* C14: the process stops running only in the step of the pool's error
\* event, and that step stops it; a query that throws inside a handler is
\* answered 500 and leaves the process running and ready for the client's
\* next request; once the process has stopped no request is accepted,
\* continued or answered and the table stays as it is
C14_TerminatesOnlyOnPoolError ==
    [][/\ (running /\ ~running') => PoolError
       /\ PoolError => ~running'
       /\ \A c \in Clients :
            (running /\ res'[c] # res[c] /\ res'[c].status = 500)
            => running' /\ pc'[c] = "ready"
       /\ ~running => /\ ~running'
                      /\ pc' = pc /\ req' = req /\ res' = res
                      /\ served' = served /\ payslips' = payslips]_vars

\* a query threw inside a handler and was answered 500, and the pool's error
\* event stopped the process while the other client's create is still open
C14_Witness ==
    \E c1, c2 \in Clients :
        /\ ~running
        /\ res[c1] = QueryFailed
        /\ pc[c2] = "insertQuery"
        /\ served = MaxRequests

\* the strings the claim accepts: ATS0 and three digits, ATS0000 excepted
ClaimedEmployeeIds ==
    {<<"A", "T", "S", "0", a, b, c>> : a \in Digits, b \in Digits, c \in Digits}
    \ {<<"A", "T", "S", "0", "0", "0", "0">>}

\* C15: validateEmployeeId returns true for ATS0 followed by three digits
\* that are not 000, and false for ATS0000 and every other string
C15_ValidEmployeeId ==
    returned # <<>> => (returned[1] <=> args[1].s \in ClaimedEmployeeIds)

\* ATS0001, the first id after the excluded ATS0000, was accepted
C15_Witness ==
    /\ args = <<Str(<<"A", "T", "S", "0", "0", "0", "1">>)>>
    /\ returned = <<TRUE>>

\* the names the claim accepts: trimmed, 5 to 30 characters, letters with
\* single space characters between them, at least 5 letters
ClaimedAlphabeticName(s) ==
    LET t == Trim(s)
    IN  /\ Len(t) >= 5
        /\ Len(t) <= 30
        /\ \A i \in 1..Len(t) : t[i] \in Letters \/ t[i] = " "
        /\ t[1] # " " /\ t[Len(t)] # " "
        /\ \A i \in 1..(Len(t) - 1) : ~(t[i] = " " /\ t[i + 1] = " ")
        /\ Cardinality({i \in 1..Len(t) : t[i] \in Letters}) >= 5

\* C16: validateAlphabeticWithSpaces returns true exactly for the strings
\* that, trimmed, have 5 to 30 characters, are letters separated by single
\* space characters and hold at least 5 letters
C16_ValidAlphabeticName ==
    returned # <<>> => (returned[1] <=> ClaimedAlphabeticName(args[1].s))

Abs(n) == IF n < 0 THEN 0 - n ELSE n

\* C17: calculateLOPDeduction returns 0 when an argument is not a number or
\* workingDays is 0, and otherwise a value with two decimals that is
\* nearest to grossPay / workingDays * lop: no further from it than half a
\* hundredth
C17_LopDeduction ==
    returned # <<>> =>
        LET grossPay == args[1]
            workingDays == args[2]
            lop == args[3]
        IN  IF \/ \E v \in {grossPay, workingDays, lop} : v.t # "number"
               \/ workingDays.n = 0
            THEN returned[1] = 0
            ELSE 2 * Abs(returned[1] * workingDays.n - 100 * grossPay.n * lop.n)
                 <= Abs(workingDays.n)

\* calculateLOPDeduction(30000, 30, 2) returned 2000.00
C17_Witness ==
    /\ args = <<Num(30000), Num(30), Num(2)>>
    /\ returned = <<200000>>

\* C18: a handler that has not ended has sent no response, a handler that
\* has ended has sent one, a response is never followed by another for the
\* same request, and when every query returns or throws an open request is
\* answered, unless the pool's error event ends the process first
C18_ExactlyOneResponse ==
    /\ [](\A c \in Clients : pc[c] # "ready" => res[c] = NoResponse)
    /\ [](\A c \in Clients : (pc[c] = "ready" /\ req[c].op # "") => res[c] # NoResponse)
    /\ [][\A c \in Clients :
            (res[c] # NoResponse /\ res'[c] # res[c]) => pc[c] = "ready"]_vars
    /\ \A c \in Clients : (pc[c] # "ready") ~> (pc[c] = "ready" \/ ~running)

\* an open create was answered after both of its queries: with 201, while
\* the other client's create was answered by the catch block
C18_Witness ==
    \E c1, c2 \in Clients :
        /\ req[c1].op = "create" /\ res[c1].status = 201 /\ pc[c1] = "ready"
        /\ req[c2].op = "create" /\ res[c2].status = 500 /\ pc[c2] = "ready"

\* a payload the spec calls valid: the validation accepts it and every line
\* item has a valid name and a number >= 0 as its amount
ValidPayload(body) ==
    /\ ValidationResult(body) = NoResponse
    /\ \A i \in DOMAIN ScannedItems(body) : ~InvalidItem(ScannedItems(body)[i].item)

\* a returned field equals the submitted one; nothing is asked of a field the
\* payload leaves out
ReturnedAsSubmitted(got, sent) == sent.t = "undefined" \/ got = sent

\* C19: when a create of a valid payload is answered 201 with id i, getById(i)
\* on the table as the create leaves it returns 200 with a record whose
\* fields equal the submitted ones, the earnings and deductions item by
\* item, a workingDays or lop of 0 as 0
C19_CreateGetByIdRoundTrip ==
    [][\A c \in Clients :
          (/\ pc[c] = "insertQuery"
           /\ InsertPayslip(c, TRUE)
           /\ res'[c].status = 201
           /\ ValidPayload(req[c].body))
          => LET body == req[c].body
                 got == GetByIdResponse(payslips', res'[c].id)
             IN  /\ got.status = 200
                 /\ LET r == got.rows[1]
                    IN  /\ r.id = res'[c].id
                        /\ ReturnedAsSubmitted(r.employee_id, body.employeeId)
                        /\ ReturnedAsSubmitted(r.employee_name, body.employeeName)
                        /\ ReturnedAsSubmitted(r.designation, body.designation)
                        /\ ReturnedAsSubmitted(r.month_year, body.monthYear)
                        /\ ReturnedAsSubmitted(r.location, body.location)
                        /\ ReturnedAsSubmitted(r.bank_name, body.bankName)
                        /\ ReturnedAsSubmitted(r.account_no, body.accountNo)
                        /\ ReturnedAsSubmitted(r.working_days, body.workingDays)
                        /\ ReturnedAsSubmitted(r.lop, body.lop)
                        /\ ReturnedAsSubmitted(r.pan, body.pan)
                        /\ r.earnings = body.earnings.items
                        /\ r.deductions = body.deductions.items
                        /\ ReturnedAsSubmitted(r.gross_pay, body.grossPay)
                        /\ ReturnedAsSubmitted(r.total_deductions, body.totalDeductions)
                        /\ ReturnedAsSubmitted(r.net_pay, body.netPay)]_vars

\* a payslip of the body's pair is stored
PairStored(body) ==
    \E r \in payslips : /\ r.employee_id.s = body.employeeId.s
                        /\ r.month_year.s = body.monthYear.s

\* C20: the duplicate check of a create answers with the Duplicate error
\* exactly when a payslip of its pair is stored, and goes on to the insert
\* otherwise; the insert of a valid payload that runs while no payslip of its
\* pair is stored, after a delete of that pair's payslip or not, is
\* answered 201 with an id that no payslip had before and stores the payslip
\* under it
C20_RecreateAfterDelete ==
    [][\A c \in Clients :
          /\ (pc[c] = "checkQuery" /\ CheckDuplicate(c, TRUE))
             => IF PairStored(req[c].body)
                THEN res'[c] = BadRequest(DuplicateMessage)
                ELSE res'[c] = NoResponse /\ pc'[c] = "insertQuery"
          /\ (/\ pc[c] = "insertQuery"
              /\ InsertPayslip(c, TRUE)
              /\ ValidPayload(req[c].body)
              /\ MatchesMonthYear(req[c].body.monthYear.s)
              /\ ~PairStored(req[c].body))
             => /\ res'[c].status = 201
                /\ res'[c].id \notin IssuedIds
                /\ \E r \in payslips' \ payslips :
                      /\ r.id = res'[c].id
                      /\ r.employee_id = req[c].body.employeeId
                      /\ r.month_year = req[c].body.monthYear]_vars

\* two requests were served: the delete of the payslip stored at the start,
\* and then a create of the same pair, answered 201 with the id 2
C20_Witness ==
    /\ served = 2
    /\ deletedIds = {1}
    /\ \E c \in Clients : res[c] = Created(2)
    /\ \E r \in payslips : /\ r.id = 2
                           /\ r.employee_id.s = ATS0123
                           /\ r.month_year.s = Jan2024

====
